---- MODULE Spec2Model ----
(***************************************************************************)
(* Model of the modpack updater: the reconciliation pass                   *)
(* (mod_manager.check_and_update_mod_versions), the update and build       *)
(* workflows (mod_manager.update_pack, mod_manager.build_modpack) and the  *)
(* menu loop of main.py that drives them.                                  *)
(*                                                                         *)
(* Conventions.  A URL is the list url.split('/') of its segments, a path  *)
(* is the list of its components, Python's None is the empty tuple for     *)
(* tuple-valued things, and file contents are named byte strings whose     *)
(* digests and sizes are given by Sha1, Sha512 and SizeOf.                 *)
(***************************************************************************)
EXTENDS Integers, Sequences, FiniteSets, TLC

\* ------------------------------------------------------------------ bounds
MaxEntries == 2
MaxRuns == 2
MaxFaults == 1

\* ------------------------------------------------------------ basic values
None == <<>>
Absent == "absent"
NoKey == "<no key>"

Projects == {"P1", "P2"}
FileNames == {"a10.jar", "a11.jar", "s.jar", "b11.jar"}
Contents == {"c10", "c11", "x11", "trunc"}

Sha1(c) == <<"sha1", c>>
Sha512(c) == <<"sha512", c>>
SizeOf(c) ==
  CASE c = "c10" -> 10
    [] c = "c11" -> 11
    [] c = "x11" -> 11
    [] OTHER -> 1

CURRENT_DIR == "current"
MODS_DIR == <<CURRENT_DIR, "mods">>

\* url.split('/') of https://cdn.modrinth.com/data/<pid>/versions/<ver>/<fn>
MkUrl(pid, ver, fn) ==
  <<"https:", "", "cdn.modrinth.com", "data", pid, "versions", ver, fn>>
ShortUrl == <<"https:", "", "example.org", "x.jar">>

\* The bytes the content server holds for a release file's URL.
ServerContent(url) == IF url[7] = "1.0" THEN "c10" ELSE "c11"

\* urllib.parse.unquote on the file names used here
Unquote(s) == IF s = "b11%2Ejar" THEN "b11.jar" ELSE s

\* file_entry['downloads'][0].split('/')[4] raises IndexError
RaisesIndexError(entry) ==
  \/ Len(entry.downloads) = 0
  \/ Len(entry.downloads[1]) < 5
ProjectIdOf(entry) == entry.downloads[1][5]

\* os.path.join(directory, filename)
PathJoin(dir, fn) == Append(dir, fn)

RECURSIVE DropBase(_, _)
DropBase(p, base) ==
  IF Len(p) <= 1 THEN p
  ELSE IF Head(p) = base THEN DropBase(Tail(p), base)
  ELSE <<Head(p)>> \o DropBase(Tail(p), base)

\* get_relative_path: every "<base_dir>/" is cut out of the path; None for None
get_relative_path(file_path, base_dir) ==
  IF file_path # None THEN DropBase(file_path, base_dir) ELSE None

\* input(...).strip() on the version and project identifiers typed here
Strip(s) ==
  CASE s = " 2.0 " -> "2.0"
    [] s = " P2 " -> "P2"
    [] OTHER -> s
\* input(...).strip().lower() on the yes/no answers typed here
StripLower(s) ==
  CASE s = " Y" -> "y"
    [] s = " NeoForge" -> "neoforge"
    [] OTHER -> s
StartsWithY(s) == s \in {"y", "yes"}

\* ------------------------------------------------------- catalog contents
GAME_VERSION == "1.20.1"

\* One file of a release descriptor, as the catalog reports it.
MkFile(pid, ver, urlName, fn, primary) ==
  [url |-> MkUrl(pid, ver, urlName), filename |-> fn, primary |-> primary,
   size |-> SizeOf(ServerContent(MkUrl(pid, ver, urlName))),
   hashes |-> [sha1 |-> Sha1(ServerContent(MkUrl(pid, ver, urlName))),
               sha512 |-> Sha512(ServerContent(MkUrl(pid, ver, urlName)))]]

MkRelease(ver, loaders, files) ==
  [version_number |-> ver, loaders |-> loaders,
   game_versions |-> {GAME_VERSION}, files |-> files]

P1Primary11 == MkFile("P1", "1.1", "a11.jar", "a11.jar", TRUE)
P1Plain11 == MkFile("P1", "1.1", "a11.jar", "a11.jar", FALSE)
P1Sources11 == MkFile("P1", "1.1", "s.jar", "s.jar", FALSE)
P1SecondPrimary11 == MkFile("P1", "1.1", "s.jar", "s.jar", TRUE)
P1Renamed11 == MkFile("P1", "1.1", "a10.jar", "a10.jar", TRUE)
P1Primary10 == MkFile("P1", "1.0", "a10.jar", "a10.jar", TRUE)
P2Primary11 == MkFile("P2", "1.1", "b11%2Ejar", "b11.jar", TRUE)

ForgeOnly12 == MkRelease("1.2", {"forge"}, <<P1Primary11>>)

\* What the catalog answers for a project: ok = FALSE is a failed request.
Answer(ok, versions) == [ok |-> ok, versions |-> versions]

P1Answers ==
  { Answer(FALSE, <<>>),
    Answer(TRUE, <<>>),
    Answer(TRUE, <<ForgeOnly12>>),
    Answer(TRUE, <<MkRelease("1.0", {"fabric"}, <<P1Primary10>>)>>),
    Answer(TRUE, <<ForgeOnly12, MkRelease("1.1", {"fabric", "quilt"}, <<P1Primary11>>)>>),
    Answer(TRUE, <<MkRelease("1.1", {"fabric"}, <<P1Plain11>>)>>),
    Answer(TRUE, <<MkRelease("1.1", {"fabric"}, <<>>)>>),
    Answer(TRUE, <<MkRelease("1.1", {"fabric"}, <<P1Sources11, P1Primary11>>)>>),
    Answer(TRUE, <<MkRelease("1.1", {"fabric"}, <<P1Primary11, P1SecondPrimary11>>)>>),
    Answer(TRUE, <<MkRelease("1.1", {"fabric"}, <<P1Renamed11>>)>>) }

P2Answer == Answer(TRUE, <<MkRelease("1.1", {"fabric"}, <<P2Primary11>>)>>)

DefaultCatalog == [p \in Projects |-> IF p = "P1" THEN Answer(TRUE, <<>>) ELSE P2Answer]

\* ------------------------------------------------------- manifest contents
MkEntry(downloads, path, content) ==
  [downloads |-> downloads, path |-> path,
   hashes |-> [sha1 |-> Sha1(content), sha512 |-> Sha512(content)],
   fileSize |-> SizeOf(content),
   env |-> [server |-> "required", client |-> "required"]]

EntryOptions ==
  { MkEntry(<<MkUrl("P1", "1.0", "a10.jar")>>, <<"mods", "a10.jar">>, "c10"),
    MkEntry(<<MkUrl("P2", "1.0", "b10.jar")>>, <<"mods", "b10.jar">>, "c10"),
    MkEntry(<<ShortUrl>>, <<"mods", "x.jar">>, "c10"),
    MkEntry(<<>>, <<"mods", "y.jar">>, "c10") }

RECURSIVE SeqsUpTo(_, _)
SeqsUpTo(S, n) ==
  IF n = 0 THEN {<<>>}
  ELSE LET shorter == SeqsUpTo(S, n - 1)
       IN shorter \cup {Append(s, x) : s \in shorter, x \in S}

DepKeys == {"minecraft", "forge", "fabric", "quilt", "neoforge", "liteloader"}
Deps(loader) ==
  [k \in DepKeys |-> IF k = "minecraft" THEN GAME_VERSION
                     ELSE IF k = loader THEN "0.15" ELSE NoKey]
NoDeps == [k \in DepKeys |-> NoKey]

\* A cache row of table mod_versions.
MkRow(ver, url, size, sha1, sha512, loader) ==
  [version_number |-> ver, file_url |-> url, file_size |-> size,
   sha1 |-> sha1, sha512 |-> sha512, mod_loader |-> loader]
RowFor(pid, ver, fn) ==
  MkRow(ver, MkUrl(pid, ver, fn), SizeOf(ServerContent(MkUrl(pid, ver, fn))),
        Sha1(ServerContent(MkUrl(pid, ver, fn))),
        Sha512(ServerContent(MkUrl(pid, ver, fn))), "fabric")

\* ------------------------------------------------------------------- state
VARIABLES
  json_data,    \* modpack_data, the manifest in memory
  indexFile,    \* current/modrinth.index.json on disk
  db,           \* table mod_versions as the open connection sees it
  dbCommitted,  \* table mod_versions as committed to mod_versions.db
  disk,         \* the files of the mods directory: name -> bytes or Absent
  catalog,      \* what the catalog service answers per project
  overrides,    \* the overrides folder: absent, empty or nonempty
  backups,      \* number of backup_<timestamp> trees in the backups directory
  archives,     \* the .mrpack packages written
  logFiles,     \* number of update-log blocks written
  pc,           \* position of the process
  run,          \* locals of the running update_pack / build_modpack call
  obs,          \* what the running call has done so far
  pre,          \* the persistent state when the running call started
  hist          \* calls left, passes completed, faults so far, and whether a
                \* kill came between the index write and the commit of an update

vars == <<json_data, indexFile, db, dbCommitted, disk, catalog, overrides,
          backups, archives, logFiles, pc, run, obs, pre, hist>>

Unset == <<"unset">>

NoRun ==
  [kind |-> "none", new_version |-> "", new_summary |-> "", dry_run |-> FALSE,
   use_async |-> FALSE, game_version |-> "None", mod_loader |-> "None",
   idx |-> 0, fidx |-> 0, project_id |-> "", latest |-> None,
   current_version |-> None, local_sha1 |-> Unset,
   updates_log |-> <<>>, phases |-> <<>>, proceed |-> "unasked",
   backup |-> "none", persist |-> "none", result |-> "none"]

NoObs ==
  [report |-> <<>>, logged |-> <<>>, failed |-> {}, fetched |-> {}, queries |-> 0,
   gets |-> 0, writes |-> 0, upserts |-> 0, mutations |-> 0]

Snapshot ==
  [json_data |-> json_data, indexFile |-> indexFile, db |-> db,
   dbCommitted |-> dbCommitted, disk |-> disk, backups |-> backups,
   archives |-> archives, logFiles |-> logFiles]

File(state, data) == [state |-> state, data |-> data]

Manifest(versionId, deps, files) ==
  [versionId |-> versionId, summary |-> "initial", dependencies |-> deps,
   files |-> files]

\* load_modpack_json with no modrinth.index.json anywhere
FreshManifest == Manifest(NoKey, NoDeps, <<>>)

OverridesStates == {"absent", "empty", "nonempty"}

EmptyDisk == [f \in FileNames |-> Absent]
EmptyDb == [p \in Projects |-> None]

\* Whether some entry of the manifest belongs to project P1.
TracksP1(config) ==
  \E i \in 1..Len(config.files) :
    ~RaisesIndexError(config.files[i]) /\ ProjectIdOf(config.files[i]) = "P1"

\* Environment faults (failed transfers, writes, copies) are counted, and at
\* most MaxFaults of them happen in one execution of the program.
Cost(outcome) == IF outcome = "ok" THEN 0 ELSE 1
CostOf(succeeded) == IF succeeded THEN 0 ELSE 1
Affordable(cost) == hist.faults + cost <= MaxFaults
Charged(cost) == [hist EXCEPT !.faults = @ + cost]

InitCommon ==
  /\ indexFile = File("complete", json_data)
  /\ dbCommitted = db
  /\ backups = 0
  /\ archives = {}
  /\ logFiles = 0
  /\ pc = "Menu"
  /\ run = NoRun
  /\ obs = NoObs
  /\ pre = Snapshot

\* One call, over every manifest, catalog answer, cache row and mods directory.
InitWide ==
  /\ json_data \in {Manifest("2.0", Deps("fabric"), fs) :
                      fs \in SeqsUpTo(EntryOptions, MaxEntries)}
  /\ catalog \in {[p \in Projects |-> IF p = "P1" THEN a ELSE P2Answer] :
                    a \in P1Answers}
  /\ db \in {[EmptyDb EXCEPT !["P1"] = r] :
               r \in {None, <<RowFor("P1", "1.0", "a10.jar")>>,
                      <<RowFor("P1", "1.1", "a11.jar")>>}}
  /\ disk \in {EmptyDisk, [EmptyDisk EXCEPT !["a10.jar"] = "c10"],
               [EmptyDisk EXCEPT !["a11.jar"] = "c11"],
               [EmptyDisk EXCEPT !["a11.jar"] = "x11"]}
  /\ TracksP1(json_data) \/ (catalog = DefaultCatalog /\ db = EmptyDb /\ disk = EmptyDisk)
  /\ overrides = "empty"
  /\ hist = [left |-> 1, passes |-> 0, faults |-> 0, torn |-> FALSE]
  /\ InitCommon

\* Several calls in a row, over the manifests whose dependencies differ.
InitDeep ==
  /\ json_data \in {FreshManifest}
       \cup {Manifest("2.0", Deps(l), fs) :
               l \in {"fabric", "neoforge"},
               fs \in {<<>>, <<CHOOSE e \in EntryOptions : ~RaisesIndexError(e)
                                    /\ ProjectIdOf(e) = "P1">>}}
  /\ catalog \in {[p \in Projects |-> IF p = "P1" THEN a ELSE P2Answer] :
                    a \in P1Answers}
  /\ TracksP1(json_data) \/ catalog = DefaultCatalog
  /\ db = EmptyDb
  /\ disk = EmptyDisk
  /\ overrides \in OverridesStates
  /\ hist = [left |-> MaxRuns, passes |-> 0, faults |-> 0, torn |-> FALSE]
  /\ InitCommon

Init == InitWide \/ InitDeep

\* ------------------------------------------------- helpers of mod_manager.py
\* The file at a path of the mods directory: its bytes, or Absent.
DiskAt(d, path) ==
  IF Len(path) = 3 /\ SubSeq(path, 1, 2) = MODS_DIR /\ path[3] \in FileNames
  THEN d[path[3]] ELSE Absent

Exists(d, path) == DiskAt(d, path) # Absent

HashOutcomes == {"ok", "fail", "broken"}
DlOutcomes == {"ok", "fail", "partial"}

\* download_and_calculate_hashes: (sha1, sha512, total_bytes).  "fail" is an
\* error of requests.get / raise_for_status (caught, lines 30-35); "broken" is
\* an error while the body is read (lines 40-43, outside the try).
download_and_calculate_hashes(url, outcome) ==
  IF outcome = "ok"
  THEN [sha1 |-> Sha1(ServerContent(url)), sha512 |-> Sha512(ServerContent(url)),
        size |-> SizeOf(ServerContent(url))]
  ELSE [sha1 |-> None, sha512 |-> None, size |-> 0]

Fetched(path, flag, d, requested, written) ==
  [path |-> path, flag |-> flag, disk |-> d, requested |-> requested,
   written |-> written]

\* What one GET of url into file name fn does to the directory.
Transfer(url, file_path, fn, outcome, d) ==
  CASE outcome = "ok" ->
         Fetched(file_path, TRUE, [d EXCEPT ![fn] = ServerContent(url)], TRUE, TRUE)
    [] outcome = "partial" ->
         Fetched(None, FALSE, [d EXCEPT ![fn] = "trunc"], TRUE, TRUE)
    [] OTHER ->
         Fetched(None, FALSE, d, TRUE, FALSE)

\* download_file: (file_path, downloaded_flag) and the directory afterwards.
\* expected_size is None or <<n>>.
download_file(url, directory, expected_size, dry_run, outcome, d) ==
  LET filename == Unquote(url[Len(url)])
      file_path == PathJoin(directory, filename)
  IN IF dry_run THEN Fetched(file_path, TRUE, d, FALSE, FALSE)
     ELSE IF /\ Exists(d, file_path)
             /\ (expected_size = None
                   \/ SizeOf(DiskAt(d, file_path)) = expected_size[1])
          THEN Fetched(file_path, FALSE, d, FALSE, FALSE)
          ELSE Transfer(url, file_path, filename, outcome, d)

\* async_download_file, with the except of download_file_wrapper around it
async_download_file(url, directory, expected_size, outcome, d) ==
  LET filename == Unquote(url[Len(url)])
      dest_path == PathJoin(directory, filename)
  IN Transfer(url, dest_path, filename, outcome, d)

download_file_wrapper(url, directory, expected_size, dry_run, use_async, outcome, d) ==
  IF use_async /\ ~dry_run
  THEN async_download_file(url, directory, expected_size, outcome, d)
  ELSE download_file(url, directory, expected_size, dry_run, outcome, d)

\* calculate_local_file_sha1: the digest, or None when the file cannot be read
calculate_local_file_sha1(d, file_path, readable) ==
  IF readable /\ Exists(d, file_path) THEN Sha1(DiskAt(d, file_path)) ELSE None

RECURSIVE FirstCompatible(_, _, _)
FirstCompatible(versions, game_version, mod_loader) ==
  IF versions = <<>> THEN None
  ELSE IF /\ mod_loader \in Head(versions).loaders
          /\ game_version \in Head(versions).game_versions
       THEN <<Head(versions)>>
       ELSE FirstCompatible(Tail(versions), game_version, mod_loader)

\* get_latest_version_info: <<release>> or None
get_latest_version_info(project_id, game_version, mod_loader) ==
  IF ~catalog[project_id].ok THEN None
  ELSE FirstCompatible(catalog[project_id].versions, game_version, mod_loader)

LoaderOrder == <<"forge", "fabric", "quilt">>

RECURSIVE FirstLoader(_, _)
FirstLoader(loaders, dependencies) ==
  IF loaders = <<>> THEN "None"
  ELSE IF dependencies[Head(loaders)] # NoKey THEN Head(loaders)
  ELSE FirstLoader(Tail(loaders), dependencies)

\* get_game_version_and_mod_loader: (game_version, mod_loader), both "None"
\* when one of them is missing
get_game_version_and_mod_loader(config) ==
  LET game_version == config.dependencies["minecraft"]
      mod_loader == FirstLoader(LoaderOrder, config.dependencies)
  IN IF game_version \in {NoKey, ""} \/ mod_loader = "None"
     THEN [game_version |-> "None", mod_loader |-> "None"]
     ELSE [game_version |-> game_version, mod_loader |-> mod_loader]

\* ------------------------------------------------ update_pack, build_modpack
VersionInputs == {" 2.0 ", "unknown"}
Answers == {"yes", " Y", "no", ""}

\* json_data.get("versionId", "unknown")
CurrentVersion(config) ==
  IF config.versionId = NoKey THEN "unknown" ELSE config.versionId

\* The check without the os.listdir part: an existing folder is enough.
OverridesExists(dir) == dir # "absent"

\* os.path.exists(overrides_dir) and os.listdir(overrides_dir)
OverridesNotEmpty(dir) == dir = "nonempty"

\* The comparison without the "unknown" default of json_data.get.
VersionUnchangedNoDefault(new_version, config) == new_version = config.versionId

\* new_version == current_version (update_pack 349, build_modpack 407)
VersionUnchanged(new_version, config) == new_version = CurrentVersion(config)

Began(kind, new_version, dry_run, use_async) ==
  [NoRun EXCEPT !.kind = kind, !.new_version = new_version,
                !.new_summary = "summary", !.dry_run = dry_run,
                !.use_async = use_async, !.phases = <<"PreflightCheck">>]

\* The prompts and checks both workflows start with (update_pack 346-361,
\* build_modpack 404-419).
Preflight(kind, raw_version, dry_answer, proceed_answer, use_async) ==
  LET new_version == Strip(raw_version)
      dry_run == StartsWithY(StripLower(dry_answer))
      began == Began(kind, new_version, dry_run, use_async)
      proceeds == StartsWithY(StripLower(proceed_answer))
  IN /\ pc = "Menu"
     /\ hist.left > 0
     /\ hist' = [hist EXCEPT !.left = @ - 1]
     /\ obs' = NoObs
     /\ pre' = Snapshot
     /\ IF VersionUnchanged(new_version, json_data)
        THEN /\ run' = [began EXCEPT !.result = "VersionUnchanged",
                                      !.phases = Append(@, "Aborted")]
             /\ pc' = "Menu"
        ELSE IF OverridesNotEmpty(overrides) /\ ~proceeds
        THEN /\ run' = [began EXCEPT !.result = "UserCancelled",
                                      !.proceed = "declined",
                                      !.phases = Append(@, "Aborted")]
             /\ pc' = "Menu"
        ELSE /\ run' = [began EXCEPT !.proceed =
                          IF OverridesNotEmpty(overrides) THEN "confirmed" ELSE @]
             /\ pc' = "Backup"
     /\ UNCHANGED <<json_data, indexFile, db, dbCommitted, disk, catalog, overrides,
                    overrides, backups, archives, logFiles>>

UpdatePreflight ==
  \E raw \in VersionInputs, dry \in Answers, proceed \in Answers,
     use_async \in BOOLEAN :
    Preflight("update", raw, dry, proceed, use_async)

BuildPreflight ==
  \E raw \in VersionInputs, dry \in Answers, proceed \in Answers :
    Preflight("build", raw, dry, proceed, FALSE)

BackupOutcomes == {"ok", "fail", "nodir"}

\* backup_current_version: the number of backups afterwards
backup_current_version(outcome, n) == IF outcome = "ok" THEN n + 1 ELSE n

\* update_pack 363 and build_modpack 421: a dry run makes no backup
SkipsBackup(dry_run) == dry_run

\* update_pack 363-366 and build_modpack 421-422
Backup ==
  /\ pc = "Backup"
  /\ IF SkipsBackup(run.dry_run)
     THEN /\ backups' = backups
          /\ run' = run
          /\ hist' = hist
     ELSE \E outcome \in BackupOutcomes :
            /\ Affordable(Cost(outcome))
            /\ hist' = Charged(Cost(outcome))
            /\ backups' = backup_current_version(outcome, backups)
            /\ run' = [run EXCEPT !.phases = Append(@, "Backup"),
                                  !.backup = outcome]
  /\ pc' = IF run.kind = "update" THEN "Loader" ELSE "Restamping"
  /\ UNCHANGED <<json_data, indexFile, db, dbCommitted, disk, catalog, overrides,
                 archives, logFiles, obs, pre>>

\* update_pack 368-375
Loader ==
  /\ pc = "Loader"
  /\ LET found == get_game_version_and_mod_loader(json_data)
     IN IF found.game_version = "None" \/ found.mod_loader = "None"
        THEN /\ run' = [run EXCEPT !.result = "NoLoader"]
             /\ pc' = "Menu"
        ELSE /\ run' = [run EXCEPT !.game_version = found.game_version,
                                    !.mod_loader = found.mod_loader,
                                    !.idx = 1,
                                    !.phases = Append(@, "Reconciling")]
             /\ pc' = "Reconciling"
  /\ UNCHANGED <<json_data, indexFile, db, dbCommitted, disk, catalog, overrides,
                 backups, archives, logFiles, obs, pre, hist>>

\* The comparison against the other digest of the cache row.
DigestShortCircuitSha512(current_version, d, local_file_path, readable) ==
  /\ current_version # None
  /\ Exists(d, local_file_path)
  /\ calculate_local_file_sha1(d, local_file_path, readable) = current_version[1].sha512

\* ------------------------------------------- check_and_update_mod_versions
\* lines 197-200: a cache row, a file at local_file_path, and equal digests
DigestShortCircuit(current_version, d, local_file_path, readable) ==
  /\ current_version # None
  /\ Exists(d, local_file_path)
  /\ calculate_local_file_sha1(d, local_file_path, readable) = current_version[1].sha1

\* line 203
UpdateDue(current_version, latest_version_info) ==
  \/ current_version = None
  \/ current_version[1].version_number # latest_version_info.version_number

\* The lookup without the try (as in updater.py line 101).
UnguardedLookup == FALSE

\* lines 186-190: the IndexError of the project-id lookup is caught
CatchesIndexError == TRUE

\* The loop without the dry_run branch.
DryRunIgnored(dry_run) == FALSE

\* lines 207-209: in a dry run the file is only logged
DryRunSkips(dry_run) == dry_run

Reported(outcome) == [obs EXCEPT !.report = Append(@, outcome)]

NextEntry == [run EXCEPT !.idx = @ + 1, !.fidx = 0]

\* One turn of the loop over json_data['files'], up to the loop over the
\* release's files (lines 185-203).
ReconcileEntry ==
  /\ pc = "Reconciling"
  /\ run.fidx = 0
  /\ run.idx <= Len(json_data.files)
  /\ LET file_entry == json_data.files[run.idx]
     IN IF RaisesIndexError(file_entry)
        THEN /\ obs' = [Reported("MalformedEntry") EXCEPT
                          !.logged = Append(@, "malformed")]
             /\ run' = IF CatchesIndexError THEN NextEntry
                       ELSE [run EXCEPT !.result = "Crashed"]
             /\ pc' = IF CatchesIndexError THEN pc ELSE "Crashed"
             /\ hist' = hist
        ELSE
          LET project_id == ProjectIdOf(file_entry)
              latest == get_latest_version_info(project_id, run.game_version,
                                                run.mod_loader)
              asked == [obs EXCEPT !.queries = @ + 1]
          IN IF latest = None
             THEN /\ obs' = [asked EXCEPT
                               !.report = Append(@, "NoCompatibleRelease"),
                               !.logged = IF catalog[project_id].ok THEN @
                                          ELSE Append(@, "lookup failed")]
                  /\ run' = [NextEntry EXCEPT !.latest = None]
                  /\ pc' = pc
                  /\ hist' = hist
             ELSE IF Len(latest[1].files) = 0
             THEN \* latest_version_info['files'][0]: IndexError, not caught
                  /\ obs' = [asked EXCEPT !.report = Append(@, "IndexError")]
                  /\ run' = [run EXCEPT !.result = "Crashed", !.latest = latest,
                                        !.current_version = db[project_id]]
                  /\ pc' = "Crashed"
                  /\ hist' = hist
             ELSE
               \E readable \in BOOLEAN :
                 LET current_version == db[project_id]
                     local_file_path ==
                       PathJoin(MODS_DIR, latest[1].files[1].filename)
                     hashing == current_version # None
                                  /\ Exists(disk, local_file_path)
                     local_sha1 ==
                       IF hashing
                       THEN calculate_local_file_sha1(disk, local_file_path, readable)
                       ELSE Unset
                     unread == IF hashing THEN CostOf(readable) ELSE 0
                 IN /\ (readable \/ unread = 1)
                    /\ Affordable(unread)
                    /\ hist' = Charged(unread)
                    /\ pc' = pc
                    /\ IF DigestShortCircuit(current_version, disk,
                                             local_file_path, readable)
                       THEN /\ obs' = [asked EXCEPT
                                         !.report = Append(@, "UpToDate"),
                                         !.logged = Append(@, "up-to-date")]
                            /\ run' = [NextEntry EXCEPT
                                         !.latest = latest,
                                         !.project_id = project_id,
                                         !.current_version = current_version,
                                         !.local_sha1 = local_sha1]
                       ELSE IF UpdateDue(current_version, latest[1])
                       THEN /\ obs' = [asked EXCEPT
                                         !.report = Append(@, "UpdateNeeded")]
                            /\ run' = [run EXCEPT
                                         !.fidx = 1,
                                         !.latest = latest,
                                         !.project_id = project_id,
                                         !.current_version = current_version,
                                         !.local_sha1 = local_sha1]
                       ELSE /\ obs' = [asked EXCEPT
                                         !.report = Append(@, "UpToDate")]
                            /\ run' = [NextEntry EXCEPT
                                         !.latest = latest,
                                         !.project_id = project_id,
                                         !.current_version = current_version,
                                         !.local_sha1 = local_sha1]
  /\ UNCHANGED <<json_data, indexFile, db, dbCommitted, disk, catalog, overrides,
                 backups, archives, logFiles, pre>>

NextFile ==
  IF run.fidx < Len(run.latest[1].files)
  THEN [run EXCEPT !.fidx = @ + 1]
  ELSE NextEntry

\* lines 213-217: the entry rewritten from the fetch
UpdatedEntry(file_entry, new_url, relative_file_path, hashed) ==
  [file_entry EXCEPT !.downloads = <<new_url>>,
                     !.path = relative_file_path,
                     !.hashes = [sha1 |-> hashed.sha1, sha512 |-> hashed.sha512],
                     !.fileSize = hashed.size]

\* The INSERT without the ON CONFLICT clause taking effect: a row that is
\* there is kept.
UpsertKeepsRow(table, project_id, row) ==
  [table EXCEPT ![project_id] = IF @ = None THEN <<row>> ELSE @]

\* lines 218-228: INSERT ... ON CONFLICT(project_id) DO UPDATE
Upsert(table, project_id, row) == [table EXCEPT ![project_id] = <<row>>]

\* A connection in autocommit mode: every statement is committed at once.
NoTransaction == FALSE

\* sqlite3.connect(DB_FILE) with the default isolation_level: an INSERT opens a
\* transaction that lasts until connection.commit()
ImplicitTransaction == TRUE

\* db_cursor.execute of the upsert: done, or raising sqlite3.Error
UpsertOutcomes == {"ok", "fail"}

\* One turn of the loop over latest_version_info['files'] (lines 204-231).
ReconcileFile ==
  /\ pc = "Reconciling"
  /\ run.fidx >= 1
  /\ LET latest == run.latest[1]
         file_info == latest.files[run.fidx]
         new_url == file_info.url
     IN IF ~file_info.primary
        THEN /\ run' = NextFile
             /\ pc' = pc
             /\ UNCHANGED <<json_data, db, disk, obs, hist>>
        ELSE IF DryRunSkips(run.dry_run)
        THEN /\ obs' = [obs EXCEPT !.logged = Append(@, "would update")]
             /\ run' = NextFile
             /\ pc' = pc
             /\ UNCHANGED <<json_data, db, disk, hist>>
        ELSE
          \E h \in HashOutcomes, t \in DlOutcomes, u \in UpsertOutcomes :
            IF h = "broken"
            THEN \* the exception leaves check_and_update_mod_versions
                 /\ t = "ok" /\ u = "ok"
                 /\ Affordable(1)
                 /\ hist' = Charged(1)
                 /\ obs' = [obs EXCEPT !.gets = @ + 1, !.failed = @ \cup {run.idx},
                                         !.fetched = @ \cup {run.idx}]
                 /\ run' = [run EXCEPT !.result = "Crashed"]
                 /\ pc' = "Crashed"
                 /\ UNCHANGED <<json_data, db, disk>>
            ELSE
              LET hashed == download_and_calculate_hashes(new_url, h)
                  got == download_file_wrapper(new_url, MODS_DIR, <<hashed.size>>,
                                               run.dry_run, run.use_async, t, disk)
                  relative_file_path == get_relative_path(got.path, "current")
                  fetching == Cost(h) + (IF got.requested THEN Cost(t) ELSE 0)
                  faults == fetching + Cost(u)
                  failed == IF fetching > 0 THEN {run.idx} ELSE {}
                  fetched == [obs EXCEPT
                                !.failed = @ \cup failed,
                                !.fetched = @ \cup {run.idx},
                                !.gets = @ + 1 + (IF got.requested THEN 1 ELSE 0),
                                !.writes = @ + (IF got.written THEN 1 ELSE 0),
                                !.mutations = @ + 1]
              IN /\ (got.requested \/ t = "ok")
                 /\ Affordable(faults)
                 /\ hist' = Charged(faults)
                 /\ disk' = got.disk
                 /\ json_data' =
                      [json_data EXCEPT !.files[run.idx] =
                         UpdatedEntry(@, new_url, relative_file_path, hashed)]
                 /\ IF u = "ok"
                    THEN /\ db' = Upsert(db, run.project_id,
                                         MkRow(latest.version_number, new_url,
                                               hashed.size, hashed.sha1,
                                               hashed.sha512, run.mod_loader))
                         /\ obs' = [fetched EXCEPT
                                      !.upserts = @ + 1,
                                      !.logged = Append(@, "updated")]
                         /\ run' = [NextFile EXCEPT
                                      !.updates_log = Append(@, file_info.filename)]
                         /\ pc' = pc
                    ELSE \* the exception leaves check_and_update_mod_versions
                         /\ db' = db
                         /\ obs' = fetched
                         /\ run' = [run EXCEPT !.result = "Crashed"]
                         /\ pc' = "Crashed"
  /\ dbCommitted' = IF ImplicitTransaction THEN dbCommitted ELSE db'
  /\ UNCHANGED <<indexFile, catalog, overrides, backups, archives, logFiles, pre>>

\* The update workflow persisting and packaging in a dry run as well.
PersistsAlways(dry_run) == FALSE

\* update_pack 379, 391-392: a dry run ends without restamping and packaging
SkipsPersist(dry_run) == dry_run

\* lines 232-239, and the return into update_pack (lines 379, 391-392)
ReconcileEnd ==
  /\ pc = "Reconciling"
  /\ run.fidx = 0
  /\ run.idx > Len(json_data.files)
  /\ \E written \in BOOLEAN :
       LET logging == run.updates_log # <<>> /\ ~run.dry_run
           faults == IF logging THEN CostOf(written) ELSE 0
       IN /\ (logging \/ written)
          /\ Affordable(faults)
          /\ logFiles' = IF logging /\ written THEN logFiles + 1 ELSE logFiles
          /\ hist' = [Charged(faults) EXCEPT
                        !.passes = IF run.dry_run THEN @ ELSE @ + 1]
  /\ IF SkipsPersist(run.dry_run)
     THEN /\ run' = [run EXCEPT !.result = "DryRunComplete",
                                !.phases = Append(@, "Done")]
          /\ pc' = "Menu"
     ELSE /\ run' = run
          /\ pc' = "Restamping"
  /\ UNCHANGED <<json_data, indexFile, db, dbCommitted, disk, catalog, overrides,
                 backups, archives, obs, pre>>

\* ------------------------------------------------------ persist and package
WriteOutcomes == {"ok", "unopened", "partial"}

\* open(index_path, 'w') and json.dump: the file afterwards
WriteIndex(outcome, old, data) ==
  CASE outcome = "ok" -> File("complete", data)
    [] outcome = "partial" -> File("partial", data)
    [] OTHER -> old

\* The restamp that sets the summary only.
RestampedSummaryOnly(config, new_version, new_summary) ==
  [config EXCEPT !.summary = new_summary]

\* update_pack 380-381 and build_modpack 425-426
Restamped(config, new_version, new_summary) ==
  [config EXCEPT !.versionId = new_version, !.summary = new_summary]

\* update_pack 379-389 and build_modpack 425-434
Restamp ==
  /\ pc = "Restamping"
  /\ \E outcome \in WriteOutcomes :
       LET stamped == Restamped(json_data, run.new_version, run.new_summary)
       IN /\ Affordable(Cost(outcome))
          /\ hist' = Charged(Cost(outcome))
          /\ json_data' = stamped
          /\ indexFile' = WriteIndex(outcome, indexFile, stamped)
          /\ run' = [run EXCEPT !.phases = Append(@, "Restamping"),
                                !.persist = outcome]
  /\ dbCommitted' = db
  /\ pc' = "Archiving"
  /\ UNCHANGED <<db, disk, catalog, overrides, backups, archives, logFiles, obs, pre>>

\* create_zip_package
Archive ==
  /\ pc = "Archiving"
  /\ \E zipped \in BOOLEAN :
       /\ Affordable(CostOf(zipped))
       /\ hist' = Charged(CostOf(zipped))
       /\ archives' = IF zipped
                      THEN archives \cup {[name |-> run.new_version, index |-> indexFile]}
                      ELSE archives
  /\ run' = [run EXCEPT !.result = "Done",
                        !.phases = Append(Append(@, "Archiving"), "Done")]
  /\ pc' = "Menu"
  /\ UNCHANGED <<json_data, indexFile, db, dbCommitted, disk, catalog, overrides,
                 backups, logFiles, obs, pre>>

\* ------------------------------------------------- the other menu choices
\* What the catalog answers for a version id (get_version_info_by_id):
\* <<release>>, or None for a failed request.
VersionIds == {"p1-10", "p1-11", "p1-11s", "p1-0", "p2-11", "gone"}

get_version_info_by_id(version_id) ==
  CASE version_id = "p1-10" -> <<MkRelease("1.0", {"fabric"}, <<P1Primary10>>)>>
    [] version_id = "p1-11" -> <<MkRelease("1.1", {"fabric"}, <<P1Plain11>>)>>
    [] version_id = "p1-11s" ->
         <<MkRelease("1.1", {"fabric"}, <<P1Sources11, P1Primary11>>)>>
    [] version_id = "p1-0" -> <<MkRelease("1.1", {"fabric"}, <<>>)>>
    [] version_id = "p2-11" -> <<MkRelease("1.1", {"fabric"}, <<P2Primary11>>)>>
    [] OTHER -> None

\* next((f for f in files if f.get('primary')), files[0]), files not empty
PrimaryFile(files) ==
  IF \E i \in 1..Len(files) : files[i].primary
  THEN files[CHOOSE i \in 1..Len(files) :
               files[i].primary /\ \A j \in 1..(i - 1) : ~files[j].primary]
  ELSE files[1]

Requirement(answer) ==
  IF StartsWithY(StripLower(answer)) THEN "required" ELSE "optional"

\* The answers to the two "required for ...?" questions.
RequiredAnswers == {<<"yes", "">>, <<"no", " Y">>}

Called(kind, result) == [NoRun EXCEPT !.kind = kind, !.result = result]

\* add_mod_interactive (menu choice 1)
AddMod ==
  /\ pc = "Menu"
  /\ hist.left > 0
  /\ Len(json_data.files) < MaxEntries
  /\ obs' = NoObs
  /\ pre' = Snapshot
  /\ \E version_id \in VersionIds, req \in RequiredAnswers,
        use_async \in BOOLEAN, t \in DlOutcomes :
       LET version_info == get_version_info_by_id(version_id)
           server_req == req[1]
           client_req == req[2]
       IN IF version_info = None
          THEN /\ t = "ok" /\ ~use_async /\ req = <<"yes", "">>
               /\ run' = Called("add", "NoVersion")
               /\ pc' = "Menu"
               /\ hist' = [hist EXCEPT !.left = @ - 1]
               /\ UNCHANGED <<json_data, disk>>
          ELSE IF Len(version_info[1].files) = 0
          THEN \* version_info['files'][0]: IndexError, not caught
               /\ t = "ok" /\ ~use_async /\ req = <<"yes", "">>
               /\ run' = Called("add", "Crashed")
               /\ pc' = "Crashed"
               /\ hist' = [hist EXCEPT !.left = @ - 1]
               /\ UNCHANGED <<json_data, disk>>
          ELSE
            LET primary_file == PrimaryFile(version_info[1].files)
                got == download_file_wrapper(primary_file.url, MODS_DIR, None,
                                             FALSE, use_async, t, disk)
                relative_file_path == get_relative_path(got.path, "current")
                new_mod_entry ==
                  [path |-> relative_file_path,
                   hashes |-> primary_file.hashes,
                   env |-> [server |-> Requirement(server_req),
                            client |-> Requirement(client_req)],
                   downloads |-> <<primary_file.url>>,
                   fileSize |-> primary_file.size]
                faults == IF got.requested THEN Cost(t) ELSE 0
            IN /\ (got.requested \/ t = "ok")
               /\ Affordable(faults)
               /\ hist' = [Charged(faults) EXCEPT !.left = @ - 1]
               /\ disk' = got.disk
               /\ json_data' = [json_data EXCEPT !.files = Append(@, new_mod_entry)]
               /\ run' = Called("add", "Added")
               /\ pc' = "Menu"
  /\ UNCHANGED <<indexFile, db, dbCommitted, catalog, overrides, backups, archives,
                 logFiles>>

\* list_mods (menu choice 2) only prints
ListMods ==
  /\ pc = "Menu"
  /\ UNCHANGED vars

RemoveInputs == {"P1", " P2 ", "none"}

\* remove_mod (menu choice 3)
RemoveMod ==
  /\ pc = "Menu"
  /\ hist.left > 0
  /\ hist' = [hist EXCEPT !.left = @ - 1]
  /\ obs' = NoObs
  /\ pre' = Snapshot
  /\ \E raw \in RemoveInputs :
       LET mod_id == Strip(raw)
           Keeps(entry) == ProjectIdOf(entry) # mod_id
       IN IF \E i \in 1..Len(json_data.files) : RaisesIndexError(json_data.files[i])
          THEN \* entry['downloads'][0].split('/')[4]: IndexError, not caught
               /\ raw = "none"
               /\ run' = Called("remove", "Crashed")
               /\ pc' = "Crashed"
               /\ json_data' = json_data
          ELSE /\ json_data' = [json_data EXCEPT !.files = SelectSeq(@, Keeps)]
               /\ run' = Called("remove",
                                IF Len(json_data'.files) < Len(json_data.files)
                                THEN "Removed" ELSE "NotFound")
               /\ pc' = "Menu"
  /\ UNCHANGED <<indexFile, db, dbCommitted, disk, catalog, overrides, backups,
                 archives, logFiles>>

\* allowed_loaders of update_dependencies, in its order
AllowedLoaders == <<"fabric", "forge", "neoforge", "quilt", "liteloader">>

\* deps.pop(loader, None) for every allowed loader
WithoutLoaders(deps) ==
  [k \in DepKeys |-> IF k = "minecraft" THEN deps[k] ELSE NoKey]

\* update_dependencies: the dependencies after the answers to its prompts
update_dependencies(deps, raw_mc, raw_loader, raw_version) ==
  LET new_mc == Strip(raw_mc)
      with_mc == IF new_mc # "" THEN [deps EXCEPT !["minecraft"] = new_mc]
                 ELSE deps
      current_loader == FirstLoader(AllowedLoaders, with_mc)
      new_loader == StripLower(raw_loader)
      version == Strip(raw_version)
  IN IF new_loader # ""
     THEN IF \E i \in 1..Len(AllowedLoaders) : AllowedLoaders[i] = new_loader
          THEN IF version # ""
               THEN [WithoutLoaders(with_mc) EXCEPT ![new_loader] = version]
               ELSE WithoutLoaders(with_mc)
          ELSE with_mc
     ELSE IF current_loader # "None" /\ version # ""
          THEN [with_mc EXCEPT ![current_loader] = version]
          ELSE with_mc

MinecraftInputs == {"", "1.20.1"}
LoaderInputs == {"", " NeoForge", "quilt", "bogus"}
LoaderVersionInputs == {"", "0.15"}

\* update_dependencies (menu choice 7)
UpdateDependencies ==
  /\ pc = "Menu"
  /\ hist.left > 0
  /\ hist' = [hist EXCEPT !.left = @ - 1]
  /\ obs' = NoObs
  /\ pre' = Snapshot
  /\ \E raw_mc \in MinecraftInputs, raw_loader \in LoaderInputs,
        raw_version \in LoaderVersionInputs :
       json_data' = [json_data EXCEPT !.dependencies =
                       update_dependencies(@, raw_mc, raw_loader, raw_version)]
  /\ run' = Called("deps", "DependenciesUpdated")
  /\ pc' = "Menu"
  /\ UNCHANGED <<indexFile, db, dbCommitted, disk, catalog, overrides, backups,
                 archives, logFiles>>

\* main.py 149-157 (menu choice 8): the manifest is saved, the loop is left and
\* conn.close() drops what was not committed.
Exit ==
  /\ pc = "Menu"
  /\ hist.left > 0
  /\ \E outcome \in WriteOutcomes :
       /\ Affordable(Cost(outcome))
       /\ hist' = [Charged(Cost(outcome)) EXCEPT !.left = @ - 1]
       /\ indexFile' = WriteIndex(outcome, indexFile, json_data)
       /\ run' = [Called("exit", "Exited") EXCEPT !.persist = outcome]
  /\ db' = dbCommitted
  /\ obs' = NoObs
  /\ pre' = Snapshot
  /\ pc' = "Exited"
  /\ UNCHANGED <<json_data, dbCommitted, disk, catalog, overrides, backups, archives,
                 logFiles>>

\* The process is killed while a workflow runs.  In Restamping this is before,
\* during or after the write of the index file, and before the commit.
Killed ==
  /\ pc \in {"Backup", "Loader", "Reconciling", "Restamping", "Archiving"}
  /\ Affordable(1)
  /\ IF pc = "Restamping"
     THEN \E outcome \in WriteOutcomes :
            /\ indexFile' =
                 WriteIndex(outcome, indexFile,
                            Restamped(json_data, run.new_version, run.new_summary))
            /\ hist' = [Charged(1) EXCEPT
                          !.torn = @ \/ (outcome = "ok" /\ run.kind = "update")]
     ELSE /\ indexFile' = indexFile
          /\ hist' = Charged(1)
  /\ run' = [run EXCEPT !.result = "Killed"]
  /\ pc' = "Crashed"
  /\ UNCHANGED <<json_data, db, dbCommitted, disk, catalog, overrides, backups,
                 archives, logFiles, obs, pre>>

\* load_modpack_json: a file that does not parse gives {}
EmptyManifest == [FreshManifest EXCEPT !.summary = NoKey]

load_modpack_json(file) ==
  IF file.state = "complete" THEN file.data ELSE EmptyManifest

\* The program is started again: main.py 127-129.
Restart ==
  /\ pc \in {"Crashed", "Exited"}
  /\ json_data' = load_modpack_json(indexFile)
  /\ db' = dbCommitted
  /\ pc' = "Menu"
  /\ run' = NoRun
  /\ obs' = NoObs
  /\ pre' = [Snapshot EXCEPT !.json_data = load_modpack_json(indexFile),
                             !.db = dbCommitted]
  /\ UNCHANGED <<indexFile, dbCommitted, disk, catalog, overrides, backups, archives,
                 logFiles, hist>>

Next ==
  \/ UpdatePreflight
  \/ BuildPreflight
  \/ Backup
  \/ Loader
  \/ ReconcileEntry
  \/ ReconcileFile
  \/ ReconcileEnd
  \/ Restamp
  \/ Archive
  \/ AddMod
  \/ ListMods
  \/ RemoveMod
  \/ UpdateDependencies
  \/ Exit
  \/ Killed
  \/ Restart

Spec == Init /\ [][Next]_vars

\* The process goes on with the statement it is at: a call that has started
\* is not suspended for ever.
Proceeds ==
  /\ WF_vars(Backup)
  /\ WF_vars(Loader)
  /\ WF_vars(ReconcileEntry)
  /\ WF_vars(ReconcileFile)
  /\ WF_vars(ReconcileEnd)
  /\ WF_vars(Restamp)
  /\ WF_vars(Archive)

LiveSpec == Init /\ [][Next]_vars /\ Proceeds

\* ------------------------------------------------------------ properties
Last(seq) == seq[Len(seq)]

InCall == run.kind \in {"update", "build"}

\* The loop over json_data['files'] has run to its end.
PassComplete ==
  /\ pc = "Reconciling"
  /\ run.fidx = 0
  /\ run.idx > Len(json_data.files)

\* The call has changed nothing that outlives it.
NothingPersistentChanged ==
  /\ json_data = pre.json_data
  /\ indexFile = pre.indexFile
  /\ db = pre.db
  /\ dbCommitted = pre.dbCommitted
  /\ disk = pre.disk
  /\ backups = pre.backups
  /\ archives = pre.archives
  /\ logFiles = pre.logFiles

\* The release the catalog holds for project p under the run's game version
\* and loader.
LatestFor(p) == get_latest_version_info(p, GAME_VERSION, "fabric")

\* C1: after a completed non-dry-run pass, the next pass over the unchanged
\* catalog, mods directory and cache resolves every entry that has a release
\* to compare with to UpToDate, and transfers, upserts and rewrites nothing.
C1_Idempotence ==
  (PassComplete /\ hist.passes >= 1 /\ hist.faults = 0)
    => /\ \A i \in 1..Len(obs.report) :
            obs.report[i] \in {"UpToDate", "MalformedEntry", "NoCompatibleRelease"}
       /\ obs.gets = 0
       /\ obs.upserts = 0
       /\ obs.mutations = 0

\* The process is about to run one turn of the loop over json_data['files'].
AtEntry ==
  /\ pc = "Reconciling"
  /\ run.fidx = 0
  /\ run.idx <= Len(json_data.files)

\* The entry that turn is about has a release, with files, and a cache row.
EntryHasReleaseAndRow ==
  /\ ~RaisesIndexError(json_data.files[run.idx])
  /\ LET p == ProjectIdOf(json_data.files[run.idx])
         latest == get_latest_version_info(p, run.game_version, run.mod_loader)
     IN /\ latest # None
        /\ Len(latest[1].files) > 0
        /\ db[p] # None

\* The file at path has the digest the cache holds for the entry's project.
DigestAgrees(path) ==
  /\ Exists(disk, path)
  /\ Sha1(DiskAt(disk, path)) = db[ProjectIdOf(json_data.files[run.idx])][1].sha1

\* The turn ends the entry as up to date, with nothing fetched or changed.
EndsUpToDate ==
  /\ Last(obs'.report) = "UpToDate"
  /\ obs'.gets = obs.gets
  /\ obs'.writes = obs.writes
  /\ json_data' = json_data
  /\ db' = db
  /\ disk' = disk
  /\ run'.fidx = 0
  /\ run'.idx = run.idx + 1

\* The entry's own local path, under the download directory.
EntryLocalPath == <<CURRENT_DIR>> \o json_data.files[run.idx].path

\* Where the first file of the entry's latest release lies in the mods directory.
ReleaseFilePath ==
  PathJoin(MODS_DIR,
           get_latest_version_info(ProjectIdOf(json_data.files[run.idx]),
                                   run.game_version, run.mod_loader)[1].files[1].filename)

\* C2 as stated: with a cache row and a readable file at the entry's local
\* path whose digest equals the cached one, the entry ends UpToDate with no
\* fetch and no manifest or cache change, whatever the version numbers are.
C2_ShortCircuitAtEntryPath ==
  [][ (AtEntry /\ EntryHasReleaseAndRow /\ DigestAgrees(EntryLocalPath)
         /\ hist'.faults = hist.faults)
        => EndsUpToDate ]_vars

\* C2 amended: with a cache row and a readable file in the mods directory
\* under the file name of the first file of the latest release, whose digest
\* equals the cached one, the entry ends UpToDate with no fetch and no
\* manifest or cache change, whatever the version numbers are.
C2_ShortCircuitAtReleaseFile ==
  [][ (AtEntry /\ EntryHasReleaseAndRow /\ DigestAgrees(ReleaseFilePath)
         /\ hist'.faults = hist.faults)
        => EndsUpToDate ]_vars

\* An entry was short-circuited although the catalog's version number differs
\* from the cached one.
C2_Witness ==
  /\ pc = "Reconciling"
  /\ obs.logged # <<>>
  /\ Last(obs.logged) = "up-to-date"
  /\ Last(obs.report) = "UpToDate"
  /\ run.current_version # None
  /\ run.current_version[1].version_number # run.latest[1].version_number
  /\ run.local_sha1 = run.current_version[1].sha1
  /\ obs.gets = 0

\* The decision the last turn took, from the values it read.
LastDecisionFollowsVersions ==
  (/\ pc = "Reconciling"
   /\ obs.report # <<>>
   /\ Last(obs.report) \in {"UpToDate", "UpdateNeeded"}
   /\ ~(run.current_version # None
          /\ run.local_sha1 = run.current_version[1].sha1))
    => (Last(obs.report) = "UpdateNeeded"
          <=> \/ run.current_version = None
              \/ run.current_version[1].version_number
                   # run.latest[1].version_number)

\* Cached version 1.0, upstream version 1.1, no local file, no failing
\* transfer: the completed non-dry-run pass has the file and a row at 1.1.
ExampleUpdated ==
  (/\ pc = "Restamping"
   /\ run.kind = "update"
   /\ hist.faults = 0
   /\ TracksP1(pre.json_data)
   /\ pre.db["P1"] # None
   /\ pre.db["P1"][1].version_number = "1.0"
   /\ LatestFor("P1") # None
   /\ LatestFor("P1")[1].version_number = "1.1"
   /\ pre.disk = EmptyDisk)
    => /\ db["P1"][1].version_number = "1.1"
       /\ \E f \in FileNames : disk[f] # Absent

\* C3: without the short-circuit the decision is UpdateNeeded exactly when
\* there is no cache row or the cached version number differs from the
\* release's, and with cached 1.0, upstream 1.1 and no local file a
\* non-dry-run pass downloads the file and leaves the cache row at 1.1.
C3_VersionDecision == LastDecisionFollowsVersions /\ ExampleUpdated

C5_FetchErrorIsolation ==
  \A i \in obs.failed :
    /\ json_data.files[i] = pre.json_data.files[i]
    /\ db[ProjectIdOf(pre.json_data.files[i])]
         = pre.db[ProjectIdOf(pre.json_data.files[i])]
    /\ pc # "Crashed"

\* C6: an entry without a usable source URL is skipped with no manifest,
\* cache or file change and no catalog query, and the pass goes on with the
\* next entry.
C6_MalformedEntrySkipped ==
  [][ (AtEntry /\ RaisesIndexError(json_data.files[run.idx])
         /\ hist'.faults = hist.faults)
        => /\ json_data' = json_data
           /\ db' = db /\ dbCommitted' = dbCommitted
           /\ disk' = disk
           /\ obs'.queries = obs.queries /\ obs'.gets = obs.gets
           /\ Last(obs'.report) = "MalformedEntry"
           /\ pc' = "Reconciling"
           /\ run'.idx = run.idx + 1 /\ run'.fidx = 0 ]_vars

\* An entry after a malformed one has been decided in the same pass.
C6_Witness ==
  \E i \in 1..Len(obs.report) :
    /\ obs.report[i] = "MalformedEntry"
    /\ i < Len(obs.report)
    /\ obs.report[i + 1] \in {"UpdateNeeded", "UpToDate"}

\* C7: a catalog answer never aborts the run: without a release, or with a
\* release without files, the entry and its cache row stay as they were and
\* the pass goes on.
C7_NoReleaseIsolation ==
  /\ (pc = "Crashed" /\ obs.report # <<>>) => Last(obs.report) # "IndexError"
  /\ \A i \in 1..Len(obs.report) :
       obs.report[i] \in {"NoCompatibleRelease", "IndexError"}
         => /\ json_data.files[i] = pre.json_data.files[i]
            /\ db[ProjectIdOf(pre.json_data.files[i])]
                 = pre.db[ProjectIdOf(pre.json_data.files[i])]

\* C8: a non-dry-run call whose backup failed or was not made changes no
\* manifest, cache or mod file and enters none of Reconciling, Restamping and
\* Archiving.
C8_BackupGate ==
  (InCall /\ ~run.dry_run /\ run.backup \in {"fail", "nodir"})
    => /\ pc \notin {"Reconciling", "Restamping", "Archiving"}
       /\ json_data = pre.json_data
       /\ indexFile = pre.indexFile
       /\ db = pre.db /\ dbCommitted = pre.dbCommitted
       /\ disk = pre.disk
       /\ archives = pre.archives

\* C9: a call whose new version identifier equals the manifest's current one
\* ends in the pre-flight check with nothing backed up, queried, changed,
\* written or archived, and no other call ends as VersionUnchanged.
C9_VersionUnchanged ==
  InCall =>
    /\ run.new_version = CurrentVersion(pre.json_data)
         => /\ run.result = "VersionUnchanged"
            /\ pc = "Menu"
            /\ run.phases = <<"PreflightCheck", "Aborted">>
            /\ run.backup = "none"
            /\ obs = NoObs
            /\ NothingPersistentChanged
    /\ run.result = "VersionUnchanged"
         => run.new_version = CurrentVersion(pre.json_data)

\* Both workflows have refused a version identifier, one of them the default
\* of a manifest without versionId.
C9_Witness ==
  /\ run.result = "VersionUnchanged"
  /\ run.kind = "build"
  /\ pre.json_data.versionId = NoKey
  /\ hist.left = 0

\* C10: with a non-empty overrides folder and no confirmation the call ends in
\* the pre-flight check with no backup and the manifest, its file, the cache
\* and the archives untouched; with the folder empty or absent nothing is asked.
C10_UserCancelled ==
  (InCall /\ run.result # "VersionUnchanged") =>
    /\ run.result = "UserCancelled"
         <=> (overrides = "nonempty" /\ run.proceed = "declined")
    /\ run.result = "UserCancelled"
         => /\ pc = "Menu"
            /\ run.phases = <<"PreflightCheck", "Aborted">>
            /\ run.backup = "none"
            /\ obs = NoObs
            /\ NothingPersistentChanged
    /\ overrides # "nonempty" => run.proceed = "unasked"
    /\ overrides = "nonempty" => run.proceed # "unasked"

\* A call was cancelled at the overrides warning, and another went on past an
\* empty overrides folder without a question.
C10_Witness ==
  /\ run.result = "UserCancelled"
  /\ overrides = "nonempty"
  /\ backups = 0

\* C11: an update call with dry_run set makes no backup, never restamps or
\* packages, and at its end the manifest's versionId and summary in memory and
\* in the index file, the committed cache, the log files and the packages are
\* what they were.
C11_DryRunUpdateSkipsPhases ==
  (run.kind = "update" /\ run.dry_run)
    => /\ pc \notin {"Restamping", "Archiving"}
       /\ \A i \in 1..Len(run.phases) :
            run.phases[i] \notin {"Backup", "Restamping", "Archiving"}
       /\ run.backup = "none"
       /\ backups = pre.backups
       /\ json_data.versionId = pre.json_data.versionId
       /\ json_data.summary = pre.json_data.summary
       /\ indexFile = pre.indexFile
       /\ dbCommitted = pre.dbCommitted
       /\ logFiles = pre.logFiles
       /\ archives = pre.archives

\* A dry-run update over a manifest with an entry has run to its end.
C11_Witness ==
  /\ run.kind = "update" /\ run.dry_run
  /\ run.result = "DryRunComplete"
  /\ run.phases = <<"PreflightCheck", "Reconciling", "Done">>
  /\ Len(obs.report) >= 1
  /\ pc = "Menu"

\* C12: a build call asks the catalog nothing and changes no manifest entry
\* and no cache row, and with dry_run set it makes no backup and leaves
\* versionId, summary, the index file and the packages as they were.
C12_BuildVariant ==
  run.kind = "build"
    => /\ obs.queries = 0 /\ obs.gets = 0
       /\ json_data.files = pre.json_data.files
       /\ db = pre.db
       /\ disk = pre.disk
       /\ run.dry_run
            => /\ backups = pre.backups
               /\ json_data.versionId = pre.json_data.versionId
               /\ json_data.summary = pre.json_data.summary
               /\ indexFile = pre.indexFile
               /\ archives = pre.archives

\* C13: a call whose write of the index file failed commits nothing to the
\* cache, writes no package and does not end as Done.
C13_PersistErrorFatal ==
  (InCall /\ run.persist \in {"unopened", "partial"})
    => /\ pc # "Archiving"
       /\ run.result # "Done"
       /\ dbCommitted = pre.dbCommitted
       /\ archives = pre.archives

\* C14: the index file at its canonical path is at every moment a complete
\* manifest, never a truncated one.
C14_AtomicPersist == indexFile.state = "complete"

\* The entry and the cache row of its project describe the same file.
EntryAgreesWithRow(entry) ==
  /\ db[ProjectIdOf(entry)] # None
  /\ db[ProjectIdOf(entry)][1].file_url = entry.downloads[1]
  /\ db[ProjectIdOf(entry)][1].sha1 = entry.hashes.sha1

\* C15: when the process was killed between the write of the index file and
\* the commit of the cache, the next non-dry-run pass after the restart
\* transfers nothing again, and after it every entry that has a release agrees
\* with its cache row.
C15_CrashConvergence ==
  (hist.torn /\ hist.faults = 1 /\ PassComplete /\ ~run.dry_run)
    => /\ obs.gets = 0
       /\ obs.writes = 0
       /\ \A i \in 1..Len(json_data.files) :
            obs.report[i] \in {"UpToDate", "UpdateNeeded"}
              => EntryAgreesWithRow(json_data.files[i])

\* The phases of a complete non-dry-run update, in order.
UpdatePhases ==
  <<"PreflightCheck", "Backup", "Reconciling", "Restamping", "Archiving", "Done">>

\* C16: the phases of a non-dry-run update call are a prefix of PreflightCheck,
\* Backup, Reconciling, Restamping, Archiving, Done, or end as Aborted right
\* after PreflightCheck or Backup; a call that has returned after a completed
\* backup has gone through all of them.
C16_PhaseOrder ==
  (run.kind = "update" /\ ~run.dry_run)
    => /\ \/ run.phases = SubSeq(UpdatePhases, 1, Len(run.phases))
          \/ run.phases = <<"PreflightCheck", "Aborted">>
          \/ run.phases = <<"PreflightCheck", "Backup", "Aborted">>
       /\ (pc = "Menu" /\ run.backup = "ok") => run.phases = UpdatePhases

\* How many of the messages of the running call are m.
Count(m) == Cardinality({i \in 1..Len(obs.logged) : obs.logged[i] = m})

\* C17: at the end of a pass every manifest entry is accounted for by exactly
\* one message (updated, up to date, failed or skipped), and as many entries
\* are reported updated as were rewritten.
C17_ReportAccountsForEntries ==
  PassComplete
    => /\ Len(obs.logged) = Len(json_data.files)
       /\ Count("updated") + Count("would update")
            = Cardinality({i \in 1..Len(obs.report) : obs.report[i] = "UpdateNeeded"})
       /\ ~run.dry_run
            => Count("updated")
                 = Cardinality({i \in 1..Len(json_data.files) :
                                  json_data.files[i] # pre.json_data.files[i]})

\* C18: a pass deletes no cache row, and changes or creates the row of a
\* project only if an entry of that project was found to need an update and
\* its transfer succeeded.
C18_CacheMonotone ==
  run.kind = "update"
    => \A p \in Projects :
         /\ pre.db[p] # None => db[p] # None
         /\ db[p] # pre.db[p]
              => \E i \in 1..Len(obs.report) :
                   /\ obs.report[i] = "UpdateNeeded"
                   /\ ProjectIdOf(pre.json_data.files[i]) = p
                   /\ i \notin obs.failed

\* C19: while the program runs, versionId and summary of the manifest change
\* only in the step from Restamping, and then to the new version identifier
\* and summary given to the call; no step of PreflightCheck, Backup or
\* Reconciling and no add, list or remove changes them.
C19_VersionIdStable ==
  [][ (/\ pc \notin {"Crashed", "Exited"}
       /\ \/ json_data'.versionId # json_data.versionId
          \/ json_data'.summary # json_data.summary)
        => /\ pc = "Restamping"
           /\ json_data'.versionId = run.new_version
           /\ json_data'.summary = run.new_summary ]_vars

\* An update that reconciled an entry has restamped the manifest with a new
\* version identifier.
C19_Witness ==
  /\ pc = "Archiving"
  /\ run.kind = "update"
  /\ Len(obs.report) >= 1
  /\ json_data.versionId = run.new_version
  /\ pre.json_data.versionId # run.new_version

\* No two entries of the manifest have the same path.
UniquePaths(config) ==
  \A i, j \in 1..Len(config.files) :
    config.files[i].path = config.files[j].path => i = j

\* C20: after a completed pass, with no failed transfer, over a manifest whose
\* entries had different local paths, no two entries have the same local path.
C20_UniqueLocalPaths ==
  (PassComplete /\ ~run.dry_run /\ hist.faults = 0 /\ UniquePaths(pre.json_data))
    => UniquePaths(json_data)

\* The project of entry i of the manifest the call started with.
ProjectAt(i) == ProjectIdOf(pre.json_data.files[i])

\* The index file written by the call holds entry i changed.
EntryPersisted(i) ==
  /\ indexFile # pre.indexFile
  /\ indexFile.state = "complete"
  /\ indexFile.data.files[i] # pre.json_data.files[i]

\* The committed cache row of project p has changed during the call.
RowCommitted(p) == dbCommitted[p] # pre.dbCommitted[p]

\* The index file holds an entry that has the source URL of the row of p.
RowHasEntry(p) ==
  /\ indexFile.state = "complete"
  /\ \E i \in 1..Len(indexFile.data.files) :
       indexFile.data.files[i].downloads = <<dbCommitted[p][1].file_url>>

\* C21: in an update call an entry is rewritten exactly as often as a cache
\* row is upserted, also when the call fails after a fetch, and the index
\* file holds a changed entry only with the changed row of its project
\* committed, and a changed committed row only with its entry in the file.
C21_PairAppliedTogether ==
  run.kind = "update"
    => /\ obs.mutations = obs.upserts
       /\ \A i \in 1..Len(pre.json_data.files) :
            (~RaisesIndexError(pre.json_data.files[i]) /\ EntryPersisted(i))
              => RowCommitted(ProjectAt(i))
       /\ \A p \in Projects : RowCommitted(p) => RowHasEntry(p)

\* The release the running pass compares entry i with.
ReleaseAt(i) ==
  get_latest_version_info(ProjectAt(i), run.game_version, run.mod_loader)[1]

\* The turns of the loop over the entries before the one at run.idx are over.
BetweenEntries == pc = "Reconciling" /\ run.fidx = 0

\* C22: in a pass that is not a dry run every entry found to need an update
\* has been fetched, from the URL of the release's file flagged primary, or
\* of the release's first file when no file is flagged.
C22_PrimaryFileSelection ==
  (BetweenEntries /\ ~run.dry_run)
    => \A i \in 1..Len(obs.report) :
         obs.report[i] = "UpdateNeeded"
           => /\ i \in obs.fetched
              /\ \E k \in 1..Len(ReleaseAt(i).files) :
                   /\ json_data.files[i].downloads = <<ReleaseAt(i).files[k].url>>
                   /\ \/ ReleaseAt(i).files[k].primary
                      \/ ReleaseAt(i).files[k] = PrimaryFile(ReleaseAt(i).files)

\* How many entries the running pass has found to need an update.
Needed ==
  Cardinality({i \in 1..Len(obs.report) : obs.report[i] = "UpdateNeeded"})

\* C23: a pass decides once for every entry, and rewrites entries and upserts
\* cache rows at most once for every entry it found to need an update,
\* however many files of a release are flagged primary.
C23_OneOutcomePerEntry ==
  run.kind = "update"
    => /\ Len(obs.report) <= Len(json_data.files)
       /\ obs.mutations <= Needed
       /\ obs.upserts <= Needed

\* The bytes at the destination path of an entry.
BytesAt(entry) == DiskAt(disk, <<CURRENT_DIR>> \o entry.path)

\* The digests and the size given are those of the byte string c.
Describes(sha1, sha512, size, c) ==
  /\ c # Absent
  /\ sha1 = Sha1(c)
  /\ sha512 = Sha512(c)
  /\ size = SizeOf(c)

\* C24: an update of an entry asks the content server once, and after an
\* update with no failed transfer the digests and the size in the entry and in
\* the cache row of its project are those of the file at the entry's path.
C24_DigestsDescribeWrittenBytes ==
  (BetweenEntries /\ ~run.dry_run)
    => /\ obs.gets <= obs.mutations
       /\ \A i \in obs.fetched \ obs.failed :
            LET entry == json_data.files[i]
                row == db[ProjectAt(i)][1]
            IN /\ entry.path # None
               /\ Describes(entry.hashes.sha1, entry.hashes.sha512,
                            entry.fileSize, BytesAt(entry))
               /\ Describes(row.sha1, row.sha512, row.file_size, BytesAt(entry))

\* The turn of the loop over the release's files that fetches: a file flagged
\* primary, not in a dry run.
AtFetch ==
  /\ pc = "Reconciling"
  /\ run.fidx >= 1
  /\ run.latest[1].files[run.fidx].primary
  /\ ~run.dry_run

\* Where that turn writes the file.
Destination ==
  PathJoin(MODS_DIR,
           Unquote(Last(run.latest[1].files[run.fidx].url)))

\* A file of the size of the release file is at the destination already.
SameSizeAtDestination ==
  /\ Exists(disk, Destination)
  /\ SizeOf(DiskAt(disk, Destination))
       = SizeOf(ServerContent(run.latest[1].files[run.fidx].url))

\* C25: when an entry needs an update and a file of the expected size is at
\* the destination already, nothing is written to the destination and the
\* entry and the cache row are updated all the same, with the synchronous
\* and with the asynchronous transfer.
C25_OverwritePolicy ==
  [][ (AtFetch /\ SameSizeAtDestination /\ hist'.faults = hist.faults)
        => /\ obs'.writes = obs.writes
           /\ obs'.gets = obs.gets + 1
           /\ disk' = disk
           /\ obs'.mutations = obs.mutations + 1
           /\ obs'.upserts = obs.upserts + 1
           /\ json_data'.files[run.idx].downloads
                = <<run.latest[1].files[run.fidx].url>>
           /\ db'[run.project_id] # None ]_vars

\* C26: a kill of the process during the loop over the entries ends the
\* program with the index file and the committed cache as they were when the
\* call started, whatever the loop has rewritten and upserted until then.
C26_InterruptSafety ==
  [][ (pc = "Reconciling" /\ run'.result = "Killed")
        => /\ pc' = "Crashed"
           /\ indexFile' = pre.indexFile
           /\ dbCommitted' = pre.dbCommitted
           /\ load_modpack_json(indexFile') = load_modpack_json(pre.indexFile) ]_vars

\* The process was killed between the two primary files of a release, after
\* the entry was rewritten and its row upserted for the first of them.
C26_Witness ==
  /\ pc = "Crashed"
  /\ run.result = "Killed"
  /\ run.fidx >= 1
  /\ obs.mutations >= 1
  /\ json_data # pre.json_data
  /\ db # dbCommitted
  /\ indexFile = pre.indexFile

\* The call is past its prompts and has not returned.
Running == pc \in {"Backup", "Loader", "Reconciling", "Restamping", "Archiving"}

\* The call has returned to the menu.
Returned ==
  /\ pc = "Menu"
  /\ run.result \in {"Done", "DryRunComplete", "NoLoader"}

\* C27: an update or build call that is not killed returns, as Done or as
\* aborted, whatever the catalog answers and whichever transfers, backups
\* and writes fail; it never stops within Backup, Reconciling, Restamping or
\* Archiving.
C27_Termination == Running ~> (Returned \/ run.result = "Killed")

\* What a failed fetch leaves in an entry: no path, or no digest.
FetchFailedBefore(entry) == entry.path = None \/ entry.hashes.sha1 = None

\* The file at the entry's path is there and has the bytes of its source URL.
FilePresent(entry) ==
  /\ entry.path # None
  /\ BytesAt(entry) = ServerContent(entry.downloads[1])

\* C28: in a pass that follows an earlier pass of the program, an entry that a
\* failed fetch has left without path or digest is found to need an update
\* again, and no entry is reported up to date while its file is missing or
\* has other bytes than its release.
C28_RetryAfterFailedFetch ==
  (BetweenEntries /\ ~run.dry_run /\ hist.passes >= 1)
    => \A i \in 1..Len(obs.report) :
         /\ (FetchFailedBefore(pre.json_data.files[i])
               /\ obs.report[i] \in {"UpToDate", "UpdateNeeded"})
              => obs.report[i] = "UpdateNeeded"
         /\ obs.report[i] = "UpToDate" => FilePresent(json_data.files[i])

\* C29: at the end of a pass, for every entry the pass has updated, the
\* source URL, size and digests of the entry are the file_url, file_size, sha1
\* and sha512 of the cache row of its project, and the row has the release's
\* version number and the loader of the run.
C29_ManifestCacheAgreement ==
  (PassComplete /\ ~run.dry_run)
    => \A i \in obs.fetched :
         /\ db[ProjectAt(i)] # None
         /\ LET entry == json_data.files[i]
                row == db[ProjectAt(i)][1]
            IN /\ entry.downloads = <<row.file_url>>
               /\ entry.fileSize = row.file_size
               /\ entry.hashes.sha1 = row.sha1
               /\ entry.hashes.sha512 = row.sha512
               /\ row.version_number = ReleaseAt(i).version_number
               /\ row.mod_loader = run.mod_loader

\* A pass has ended that replaced the row of a project and rewrote its entry.
C29_Witness ==
  /\ PassComplete /\ ~run.dry_run
  /\ 1 \in obs.fetched
  /\ pre.db[ProjectAt(1)] # None
  /\ db[ProjectAt(1)] # pre.db[ProjectAt(1)]
  /\ json_data.files[1] # pre.json_data.files[1]
  /\ json_data.files[1].downloads = <<db[ProjectAt(1)][1].file_url>>

\* The entry add_mod_interactive builds for the release with id version_id.
DescribesRelease(entry, version_id) ==
  /\ get_version_info_by_id(version_id) # None
  /\ Len(get_version_info_by_id(version_id)[1].files) > 0
  /\ LET primary_file == PrimaryFile(get_version_info_by_id(version_id)[1].files)
     IN /\ entry.hashes = primary_file.hashes
        /\ entry.fileSize = primary_file.size
        /\ entry.downloads = <<primary_file.url>>

\* C30: add_mod_interactive leaves the entries that were there and the cache
\* as they are and appends at most one entry; an appended entry has a path,
\* the file of that path in the mods directory, and the hashes, size and
\* source URL of the primary file of a release.
C30_AddMod ==
  run.kind = "add"
    => /\ db = pre.db /\ dbCommitted = pre.dbCommitted
       /\ Len(json_data.files) \in {Len(pre.json_data.files),
                                    Len(pre.json_data.files) + 1}
       /\ SubSeq(json_data.files, 1, Len(pre.json_data.files)) = pre.json_data.files
       /\ run.result = "Added" <=> Len(json_data.files) = Len(pre.json_data.files) + 1
       /\ run.result = "Added"
            => /\ Last(json_data.files).path # None
               /\ Exists(disk, <<CURRENT_DIR>> \o Last(json_data.files).path)
               /\ \E version_id \in VersionIds :
                    DescribesRelease(Last(json_data.files), version_id)

\* The project identifier list_mods shows for an entry.
ShownProjectId(entry) ==
  IF RaisesIndexError(entry) THEN "Unknown" ELSE ProjectIdOf(entry)

\* The entries of files whose shown project identifier is not mod_id, in
\* their order.
Without(files, mod_id) ==
  LET Other(entry) == ShownProjectId(entry) # mod_id
  IN SelectSeq(files, Other)

\* C31: remove_mod ends without aborting for every manifest, also one with
\* entries whose source URL is malformed, leaves the cache as it is, and
\* leaves in the manifest exactly the entries whose project identifier is not
\* the one typed, in their order; when it reports no match the manifest is
\* unchanged.
C31_RemoveMod ==
  run.kind = "remove"
    => /\ run.result \in {"Removed", "NotFound"}
       /\ pc # "Crashed"
       /\ db = pre.db /\ dbCommitted = pre.dbCommitted
       /\ \E raw \in RemoveInputs :
            json_data.files = Without(pre.json_data.files, Strip(raw))
       /\ json_data = [pre.json_data EXCEPT !.files = json_data.files]
       /\ run.result = "NotFound" => json_data = pre.json_data
       /\ run.result = "Removed"
            => Len(json_data.files) < Len(pre.json_data.files)

\* The loader update_dependencies shows as the current one.
CurrentLoader(deps) == FirstLoader(AllowedLoaders, deps)

\* The dependencies name a Minecraft version and an accepted mod loader.
HasVersionAndLoader(deps) ==
  /\ deps["minecraft"] \notin {NoKey, ""}
  /\ CurrentLoader(deps) # "None"

\* C32: dependencies that update_dependencies has left with a Minecraft
\* version and an accepted mod loader are resolved by
\* get_game_version_and_mod_loader to that version and that loader, and no
\* update call over such dependencies ends for a missing loader.
C32_LoaderResolution ==
  /\ (run.kind = "deps" /\ HasVersionAndLoader(json_data.dependencies))
       => get_game_version_and_mod_loader(json_data)
            = [game_version |-> json_data.dependencies["minecraft"],
               mod_loader |-> CurrentLoader(json_data.dependencies)]
  /\ (run.kind = "update" /\ run.result = "NoLoader")
       => ~HasVersionAndLoader(json_data.dependencies)

====
